---- MODULE Spec2Model ----
(***************************************************************************)
(* Model of the TTS batch scripts of tts-gen:                              *)
(*   launch_tts.py  split_text_into_chunks, process_text_files,            *)
(*                  run_glue_script                                        *)
(*   glue.py        load_wav, merge_wav_files and the module-level call    *)
(*   launch_from_srt.py  parse_srt_file, time_to_filename,                 *)
(*                  process_srt_files                                      *)
(*                                                                         *)
(* A Python str is a sequence of one-character strings, so that split,     *)
(* strip, endswith and int() are computed as Python computes them.         *)
(***************************************************************************)
EXTENDS Integers, Sequences, FiniteSets, TLC

VARIABLES
    text,          \* split_text_into_chunks: the argument text
    max_length,    \* split_text_into_chunks: the argument max_length
    chunks,        \* split_text_into_chunks: the returned list
    chunk_pc,      \* "input" before the call, "done" after it
    dirs,          \* the directories: "audio" is <script dir>/audio, the
                   \* directory glue.py reads; "out" is any other output_dir
    output_wav,    \* <script dir>/output.wav: <<>> when absent, else <<content>>
    last_merge,    \* what the last run of glue.py did
    pc,            \* position of the running script
    text_files,    \* text_files_dir: input file name -> file content
    output_dir,    \* process_text_files: the argument output_dir
    overwrite,     \* process_text_files: the argument overwrite
    max_chunk_length,  \* process_text_files: the argument max_chunk_length
    run,           \* number of runs of process_text_files started so far
    clock,         \* the wall clock, in seconds
    pending,       \* the rest of os.listdir(text_files_dir)
    filename,      \* the input file of the current iteration
    text_chunks,   \* the chunks of the current TextUnit
    chunk_index,   \* i of the next chunk of the inner loop
    chunk_files,   \* the chunk file names collected so far
    merge_successful,  \* what run_glue_script returned
    hist,          \* history of the run, for stating the properties
    srt_files,     \* srt_files_dir: input file name -> file
    segments,      \* process_srt_files: the segments of the current SRT file
    order,         \* process_srt_files: order of the next segment of the loop
    name_in,       \* the (order, start_time) pairs whose file names are formed
    audio_filenames    \* the file names formed for name_in

chunkVars == <<text, max_length, chunks, chunk_pc>>
fsVars == <<dirs, output_wav, last_merge>>
argVars == <<text_files, output_dir, overwrite, max_chunk_length>>
loopVars == <<pending, filename, text_chunks, chunk_index, chunk_files, merge_successful>>
pipeVars == <<argVars, run, clock, loopVars, hist>>
srtVars == <<srt_files, segments, order, name_in, audio_filenames>>
\* what launch_from_srt.py has no part in
textOnlyVars == <<text, max_length, chunks, chunk_pc, output_wav, last_merge,
                  text_files, output_dir, max_chunk_length, clock, text_chunks,
                  chunk_index, chunk_files, merge_successful>>

vars == <<text, max_length, chunks, chunk_pc, dirs, output_wav, last_merge, pc,
          text_files, output_dir, overwrite, max_chunk_length, run, clock,
          pending, filename, text_chunks, chunk_index, chunk_files,
          merge_successful, hist, srt_files, segments, order, name_in,
          audio_filenames>>

(***************************************************************************)
(* Bounds of the model.                                                    *)
(***************************************************************************)
MaxTextLen == 7      \* longest generated input text, in characters
MaxLen == 4          \* largest generated max_length
MaxFiles == 3        \* most files in the directory handed to glue.py
MaxRuns == 2         \* most runs of a pipeline script in a row
MaxOrder == 100      \* largest segment order a file name is formed for

(***************************************************************************)
(* Python str helpers.                                                     *)
(***************************************************************************)
SP == " "
DOT == "."
Terminator == <<DOT, SP>>

\* s[i:] for a 1-based i (the suffix starting at position i)
From(s, i) == SubSeq(s, i, Len(s))

\* str.strip(): leading and trailing whitespace removed
RECURSIVE LStrip(_)
LStrip(s) == IF s # <<>> /\ Head(s) = SP THEN LStrip(Tail(s)) ELSE s

RECURSIVE RStrip(_)
RStrip(s) ==
    IF s # <<>> /\ s[Len(s)] = SP THEN RStrip(SubSeq(s, 1, Len(s) - 1)) ELSE s

Strip(s) == RStrip(LStrip(s))

\* position of the first occurrence of ". " in s at or after i, 0 when none
RECURSIVE FindTerminator(_, _)
FindTerminator(s, i) ==
    IF i + 1 > Len(s) THEN 0
    ELSE IF s[i] = DOT /\ s[i + 1] = SP THEN i
    ELSE FindTerminator(s, i + 1)

\* text.split('. '): the pieces between non-overlapping occurrences, left to
\* right; a text without the separator (the empty text too) gives one piece
RECURSIVE SplitSentences(_)
SplitSentences(s) ==
    LET i == FindTerminator(s, 1) IN
    IF i = 0 THEN <<s>>
    ELSE <<SubSeq(s, 1, i - 1)>> \o SplitSentences(From(s, i + 2))

(***************************************************************************)
(* launch_tts.py: split_text_into_chunks                                   *)
(***************************************************************************)
\* a plausible slip: the appended '.' is not counted
FitsNoTerminator(current_chunk, sentence, maxlen) ==
    Len(current_chunk) + Len(sentence) <= maxlen

\* a plausible slip: strict comparison
FitsStrict(current_chunk, sentence, maxlen) ==
    Len(current_chunk) + Len(sentence) + 1 < maxlen

\* line 14: the packing test
Fits(current_chunk, sentence, maxlen) ==
    Len(current_chunk) + Len(sentence) + 1 <= maxlen

\* a plausible slip: the closed chunk is not appended
CloseChunkDropped(chunklist, current_chunk) == chunklist

\* line 17 and line 21: chunks.append(current_chunk.strip())
CloseChunk(chunklist, current_chunk) == Append(chunklist, Strip(current_chunk))

\* the loop of lines 13-18 and the final append of lines 20-21
RECURSIVE ChunkLoop(_, _, _, _)
ChunkLoop(sentences, chunklist, current_chunk, maxlen) ==
    IF sentences = <<>>
    THEN IF current_chunk # <<>>
         THEN CloseChunk(chunklist, current_chunk)
         ELSE chunklist
    ELSE LET sentence == Head(sentences) IN
         IF Fits(current_chunk, sentence, maxlen)
         THEN ChunkLoop(Tail(sentences), chunklist,
                        current_chunk \o sentence \o Terminator, maxlen)
         ELSE ChunkLoop(Tail(sentences), CloseChunk(chunklist, current_chunk),
                        sentence \o Terminator, maxlen)

split_text_into_chunks(t, maxlen) == ChunkLoop(SplitSentences(t), <<>>, <<>>, maxlen)

(***************************************************************************)
(* File names and file contents.                                           *)
(*                                                                         *)
(* A directory is a function from file names to contents.  A content is a  *)
(* record [valid, rate, samples]: valid says whether librosa can load the  *)
(* bytes as audio, rate is the sample rate and samples the sample stream.  *)
(***************************************************************************)
US == "_"
Digits == <<"0", "1", "2", "3", "4", "5", "6", "7", "8", "9">>
DigitSet == {Digits[k] : k \in 1 .. Len(Digits)}
DigitValue(c) == (CHOOSE k \in 1 .. Len(Digits) : Digits[k] = c) - 1

DotWav == <<DOT, "w", "a", "v">>
DotTxt == <<DOT, "t", "x", "t">>

\* s.endswith(suffix)
EndsWith(s, suffix) ==
    /\ Len(s) >= Len(suffix)
    /\ SubSeq(s, Len(s) - Len(suffix) + 1, Len(s)) = suffix

\* c in s
Contains(s, c) == \E k \in 1 .. Len(s) : s[k] = c

\* s.split(c)[-1]: what follows the last c (all of s when c is not in s)
RECURSIVE AfterLast(_, _)
AfterLast(s, c) ==
    IF ~Contains(s, c) THEN s
    ELSE AfterLast(From(s, (CHOOSE k \in 1 .. Len(s) : s[k] = c /\ \A j \in 1 .. k - 1 : s[j] # c) + 1), c)

\* s.split(c)[0]: what precedes the first c (all of s when c is not in s)
BeforeFirst(s, c) ==
    IF ~Contains(s, c) THEN s
    ELSE SubSeq(s, 1, (CHOOSE k \in 1 .. Len(s) : s[k] = c /\ \A j \in 1 .. k - 1 : s[j] # c) - 1)

\* os.path.splitext(name)[0] for a name with a non-empty stem
Stem(name) ==
    IF ~Contains(SubSeq(name, 2, Len(name)), DOT) THEN name
    ELSE SubSeq(name, 1,
                (CHOOSE k \in 2 .. Len(name) :
                     name[k] = DOT /\ \A j \in k + 1 .. Len(name) : name[j] # DOT) - 1)

\* int(s) succeeds: an optional sign and at least one decimal digit (the
\* names of the model hold no blanks and the key holds no underscore)
IsInt(s) ==
    LET body == IF s # <<>> /\ Head(s) \in {"+", "-"} THEN Tail(s) ELSE s IN
    /\ body # <<>>
    /\ \A k \in 1 .. Len(body) : body[k] \in DigitSet

RECURSIVE DigitsValue(_)
DigitsValue(s) ==
    IF s = <<>> THEN 0
    ELSE 10 * DigitsValue(SubSeq(s, 1, Len(s) - 1)) + DigitValue(s[Len(s)])

\* int(s)
ToInt(s) ==
    IF Head(s) = "-" THEN 0 - DigitsValue(Tail(s))
    ELSE IF Head(s) = "+" THEN DigitsValue(Tail(s))
    ELSE DigitsValue(s)

\* str(n) for n >= 0
RECURSIVE ToStr(_)
ToStr(n) == IF n < 10 THEN <<Digits[n + 1]>> ELSE ToStr(n \div 10) \o <<Digits[(n % 10) + 1]>>

\* all orderings of a finite set: the orders os.listdir may return
RECURSIVE Perms(_)
Perms(S) ==
    IF S = {} THEN {<<>>}
    ELSE UNION {{<<x>> \o p : p \in Perms(S \ {x})} : x \in S}

(***************************************************************************)
(* glue.py: merge_wav_files                                                *)
(***************************************************************************)
\* a plausible slip: the keys are compared as strings, not as numbers
RECURSIVE StrLess(_, _)
StrLess(a, b) ==
    IF b = <<>> THEN FALSE
    ELSE IF a = <<>> THEN TRUE
    ELSE IF Head(a) = Head(b) THEN StrLess(Tail(a), Tail(b))
    ELSE LET alphabet == <<"+", "-">> \o Digits
             pos(c) == CHOOSE k \in 1 .. Len(alphabet) : alphabet[k] = c
         IN pos(Head(a)) < pos(Head(b))

KeyBeforeByName(a, b) ==
    StrLess(BeforeFirst(AfterLast(a, US), DOT), BeforeFirst(AfterLast(b, US), DOT))

\* line 22: the sort key, int(x.split('_')[-1].split('.')[0])
KeyText(name) == BeforeFirst(AfterLast(name, US), DOT)
SortKey(name) == ToInt(KeyText(name))

\* line 22: a sorts strictly before b
KeyBefore(a, b) == SortKey(a) < SortKey(b)

\* list.sort is stable: x goes after the last element that is not after it
RECURSIVE InsertSorted(_, _)
InsertSorted(sorted, x) ==
    IF sorted = <<>> THEN <<x>>
    ELSE IF KeyBefore(x, sorted[Len(sorted)])
         THEN Append(InsertSorted(SubSeq(sorted, 1, Len(sorted) - 1), x), sorted[Len(sorted)])
         ELSE Append(sorted, x)

RECURSIVE SortFiles(_)
SortFiles(names) ==
    IF names = <<>> THEN <<>>
    ELSE InsertSorted(SortFiles(SubSeq(names, 1, Len(names) - 1)), names[Len(names)])

\* line 17: file_name.endswith(".wav") and "_" in file_name
IsCandidate(name) == EndsWith(name, DotWav) /\ Contains(name, US)

\* a plausible slip: the rate test of line 38 is missing, every file is kept
LoadLoopKeepAll(names, dir, sample_rate, kept) == kept \o names

\* lines 33-41: the files kept, in order; sample_rate is the rate of the
\* first file, 0 standing for None
RECURSIVE LoadLoop(_, _, _, _)
LoadLoop(names, dir, sample_rate, kept) ==
    IF names = <<>> THEN kept
    ELSE LET sr == dir[Head(names)].rate IN
         IF sample_rate = 0
         THEN LoadLoop(Tail(names), dir, sr, Append(kept, Head(names)))
         ELSE IF sr # sample_rate
              THEN LoadLoop(Tail(names), dir, sample_rate, kept)
              ELSE LoadLoop(Tail(names), dir, sample_rate, Append(kept, Head(names)))

\* np.concatenate over the kept files
RECURSIVE Concatenate(_, _)
Concatenate(names, dir) ==
    IF names = <<>> THEN <<>>
    ELSE dir[Head(names)].samples \o Concatenate(Tail(names), dir)

\* merge_wav_files(files_directory, output_file) on the directory dir listed
\* in the order listing.  outcome: "written" (sf.write ran), "sort_failure"
\* (line 26), "no_audio" (line 45) or "load_error" (load_wav raised, the
\* exception leaves the function).
merge_wav_files(listing, dir) ==
    LET wav_files == SelectSeq(listing, IsCandidate)
        sortable == \A k \in 1 .. Len(wav_files) : IsInt(KeyText(wav_files[k]))
        sorted == SortFiles(wav_files)
        loadable == \A k \in 1 .. Len(sorted) : dir[sorted[k]].valid
        kept == LoadLoop(sorted, dir, 0, <<>>)
        none == [outcome |-> "", order |-> <<>>, rate |-> 0, samples |-> <<>>]
    IN  IF ~sortable THEN [none EXCEPT !.outcome = "sort_failure"]
        ELSE IF ~loadable THEN [none EXCEPT !.outcome = "load_error"]
        ELSE IF kept = <<>> THEN [none EXCEPT !.outcome = "no_audio"]
        ELSE [outcome |-> "written", order |-> kept,
              rate |-> dir[kept[1]].rate, samples |-> Concatenate(kept, dir)]

(***************************************************************************)
(* launch_from_srt.py: parse_srt_file and time_to_filename                 *)
(***************************************************************************)
NL == "\n"
TAB == "\t"
COLON == ":"
COMMA == ","
DASH == "-"
Whitespace == {SP, NL, TAB}
DotSrt == <<DOT, "s", "r", "t">>

\* str.strip() on a text with line breaks and tabs: what lies between the
\* first and the last character that is no whitespace
StripWs(s) ==
    LET solid == {k \in 1 .. Len(s) : s[k] \notin Whitespace}
    IN IF solid = {} THEN <<>>
       ELSE SubSeq(s, CHOOSE k \in solid : \A j \in solid : k <= j,
                      CHOOSE k \in solid : \A j \in solid : j <= k)

\* the first position at or after i that holds no whitespace, Len(s) + 1
\* when there is none
SkipWs(s, i) ==
    LET stops == {k \in i .. Len(s) + 1 : k = Len(s) + 1 \/ s[k] \notin Whitespace}
    IN CHOOSE k \in stops : \A j \in stops : k <= j

\* the last position of the run of whitespace that starts at position i
WsRunEnd(s, i) == SkipWs(s, i) - 1

\* where a match of \n\s*\n that starts at the line break i ends: the last
\* line break of the whitespace run, 0 when the run holds no second one
MatchEnd(s, i) ==
    LET ends == {k \in i + 1 .. WsRunEnd(s, i) : s[k] = NL}
    IN IF ends = {} THEN 0 ELSE CHOOSE k \in ends : \A j \in ends : j <= k

\* lines 17 and 51: re.split(r'\n\s*\n', s) from position start on: the
\* piece up to the leftmost match, then the pieces after the match
RECURSIVE SplitBlocksFrom(_, _)
SplitBlocksFrom(s, start) ==
    LET hits == {i \in start .. Len(s) : s[i] = NL /\ MatchEnd(s, i) # 0}
        i == CHOOSE k \in hits : \A j \in hits : k <= j
    IN IF hits = {} THEN <<SubSeq(s, start, Len(s))>>
       ELSE <<SubSeq(s, start, i - 1)>> \o SplitBlocksFrom(s, MatchEnd(s, i) + 1)

SplitBlocks(s) == SplitBlocksFrom(s, 1)

\* s.split(c)
RECURSIVE SplitOn(_, _)
SplitOn(s, c) ==
    IF ~Contains(s, c) THEN <<s>>
    ELSE <<BeforeFirst(s, c)>> \o SplitOn(From(s, Len(BeforeFirst(s, c)) + 2), c)

\* c.join(pieces)
RECURSIVE Join(_, _)
Join(pieces, c) ==
    IF pieces = <<>> THEN <<>>
    ELSE IF Len(pieces) = 1 THEN pieces[1]
    ELSE pieces[1] \o <<c>> \o Join(Tail(pieces), c)

\* line 21: \d{2}:\d{2}:\d{2},\d{3} matches all of t
IsTimeStr(t) ==
    /\ Len(t) = 12
    /\ \A k \in {1, 2, 4, 5, 7, 8, 10, 11, 12} : t[k] \in DigitSet
    /\ t[3] = COLON /\ t[6] = COLON /\ t[9] = COMMA

Arrow == <<DASH, DASH, ">">>

\* line 21: time_pattern matches line at position p
TimeMatchAt(line, p) ==
    LET q == SkipWs(line, p + 12)
        r == SkipWs(line, q + 3)
    IN  /\ p + 11 <= Len(line)
        /\ IsTimeStr(SubSeq(line, p, p + 11))
        /\ q + 2 <= Len(line)
        /\ SubSeq(line, q, q + 2) = Arrow
        /\ r + 11 <= Len(line)
        /\ IsTimeStr(SubSeq(line, r, r + 11))

\* line 38: re.search(time_pattern, line): the position of the leftmost
\* match, 0 when there is none
TimeSearch(line) ==
    LET hits == {p \in 1 .. Len(line) : TimeMatchAt(line, p)}
    IN IF hits = {} THEN 0 ELSE CHOOSE p \in hits : \A q \in hits : p <= q

\* line 50: re.sub(r'[ \t]+', ' ', s)
\* of a run of blanks only the first position is kept, as one blank
CollapseBlanks(s) ==
    LET blank(k) == s[k] \in {SP, TAB}
        kept == {k \in 1 .. Len(s) : ~blank(k) \/ k = 1 \/ ~blank(k - 1)}
        at(j) == CHOOSE k \in kept : Cardinality({m \in kept : m <= k}) = j
    IN [j \in 1 .. Cardinality(kept) |-> IF blank(at(j)) THEN SP ELSE s[at(j)]]

\* line 51: re.sub(r'\n\s*\n', '\n', s)
RemoveEmptyLines(s) == Join(SplitBlocks(s), NL)

\* lines 24-59 for one block: the segment of the block, as a sequence of
\* length 1, or the empty sequence when the block is passed over
ParseBlock(block) ==
    LET lines == SplitOn(StripWs(block), NL)
        p == TimeSearch(lines[2])
        q == SkipWs(lines[2], p + 12)
        r == SkipWs(lines[2], q + 3)
        body == RemoveEmptyLines(CollapseBlanks(StripWs(
                    Join(SubSeq(lines, 3, Len(lines)), NL))))
    IN  IF StripWs(block) = <<>> THEN <<>>
        ELSE IF Len(lines) < 2 THEN <<>>
        ELSE IF ~IsInt(StripWs(lines[1])) THEN <<>>
        ELSE IF p = 0 THEN <<>>
        ELSE IF body = <<>> THEN <<>>
        ELSE <<[index |-> ToInt(StripWs(lines[1])),
                start_time |-> SubSeq(lines[2], p, p + 11),
                end_time |-> SubSeq(lines[2], r, r + 11),
                text |-> body]>>

\* a plausible slip: break instead of continue, the first block that is
\* passed over ends the loop
RECURSIVE ParseBlocksBreak(_)
ParseBlocksBreak(blocks) ==
    IF blocks = <<>> \/ ParseBlock(Head(blocks)) = <<>> THEN <<>>
    ELSE ParseBlock(Head(blocks)) \o ParseBlocksBreak(Tail(blocks))

\* lines 23-59: the loop over the blocks
RECURSIVE ParseBlocks(_)
ParseBlocks(blocks) ==
    IF blocks = <<>> THEN <<>>
    ELSE ParseBlock(Head(blocks)) \o ParseBlocks(Tail(blocks))

\* parse_srt_file on the content read from the file
parse_srt_file(content) == ParseBlocks(SplitBlocks(StripWs(content)))

\* str.replace(old, new) for one-character old and new
Replace(s, old, new) == [k \in 1 .. Len(s) |-> IF s[k] = old THEN new ELSE s[k]]

\* lines 63-67
time_to_filename(time_str) == Replace(Replace(time_str, COLON, DASH), COMMA, DASH)

\* a plausible slip: the order is not zero-padded
OrderStrPlain(n) == ToStr(n)

\* line 107: f"{order:02d}"
OrderStr(n) == IF n < 10 THEN <<"0">> \o ToStr(n) ELSE ToStr(n)

\* line 109: f"{order_str}_{time_str}.wav"
AudioFilename(n, start_time) ==
    OrderStr(n) \o <<US>> \o time_to_filename(start_time) \o DotWav

(***************************************************************************)
(* Inputs of the chunker specification.                                    *)
(***************************************************************************)
TextAlphabet == {"a", DOT, SP}

RECURSIVE SeqsUpTo(_, _)
SeqsUpTo(S, n) ==
    IF n = 0 THEN {<<>>}
    ELSE LET shorter == SeqsUpTo(S, n - 1) IN
         shorter \cup {Append(s, c) : s \in {x \in shorter : Len(x) = n - 1}, c \in S}

\* the scenario of the documentation: "A. B. C." with max_length 5
ScenarioText == <<"A", DOT, SP, "B", DOT, SP, "C", DOT>>

ChunkTexts == SeqsUpTo(TextAlphabet, MaxTextLen) \cup {ScenarioText}
ChunkMaxLens == (0 .. MaxLen) \cup {5}

ChunkIdle ==
    /\ text = <<>>
    /\ max_length = 0
    /\ chunks = <<>>
    /\ chunk_pc = "idle"

NoMerge == [outcome |-> "", order |-> <<>>, rate |-> 0, samples |-> <<>>]

FsIdle ==
    /\ dirs = <<>>
    /\ output_wav = <<>>
    /\ last_merge = NoMerge

NoHistory ==
    [tts_calls |-> 0, writes |-> {}, deleted |-> {}, reached |-> {},
     processed |-> {}, clean |-> TRUE, run1 |-> <<>>]

SrtIdle ==
    /\ srt_files = <<>>
    /\ segments = <<>>
    /\ order = 0
    /\ name_in = <<>>
    /\ audio_filenames = <<>>

PipeIdle ==
    /\ text_files = <<>>
    /\ output_dir = "audio"
    /\ overwrite = FALSE
    /\ max_chunk_length = 0
    /\ run = 0
    /\ clock = 0
    /\ pending = <<>>
    /\ filename = <<>>
    /\ text_chunks = <<>>
    /\ chunk_index = 0
    /\ chunk_files = <<>>
    /\ merge_successful = FALSE
    /\ hist = NoHistory

ChunkInit ==
    /\ text \in ChunkTexts
    /\ max_length \in ChunkMaxLens
    /\ chunks = <<>>
    /\ chunk_pc = "input"
    /\ FsIdle
    /\ PipeIdle
    /\ SrtIdle
    /\ pc = "idle"

\* one call of split_text_into_chunks(text, max_length)
Chunk ==
    /\ chunk_pc = "input"
    /\ chunks' = split_text_into_chunks(text, max_length)
    /\ chunk_pc' = "done"
    /\ UNCHANGED <<text, max_length, fsVars, pipeVars, srtVars, pc>>

SpecChunk == ChunkInit /\ [][Chunk]_vars

(***************************************************************************)
(* glue.py run as a script: the module-level call of lines 55-59.          *)
(***************************************************************************)
Rates == {16000, 44100}

Audio(rate, samples) == [valid |-> TRUE, rate |-> rate, samples |-> samples]
\* bytes that are no audio, such as the body of an error response
Junk == [valid |-> FALSE, rate |-> 0, samples |-> <<>>]

\* line 60 of launch_tts.py: f"{base_name}_{i}.wav"
FragName(base_name, i) == base_name \o <<US>> \o ToStr(i) \o DotWav

OutputWavName == <<"o", "u", "t", "p", "u", "t">> \o DotWav

\* what one run of glue.py can do, over the orders os.listdir may return;
\* os.listdir raises when ./audio does not exist
GlueResults ==
    IF "audio" \notin DOMAIN dirs
    THEN {[NoMerge EXCEPT !.outcome = "listdir_error"]}
    ELSE {merge_wav_files(listing, dirs["audio"]) :
              listing \in Perms(DOMAIN dirs["audio"])}

\* the exit status of the glue.py process: an uncaught exception gives 1,
\* the early returns of merge_wav_files give 0
ExitCode(r) == IF r.outcome \in {"load_error", "listdir_error"} THEN 1 ELSE 0

\* a plausible slip: the output file is opened for writing before the merge
\* is known to have anything to write
WriteOutputAlways(r) == <<Audio(r.rate, r.samples)>>

\* line 51: sf.write(output_file, merged_audio, sample_rate)
WriteOutput(r) ==
    IF r.outcome = "written" THEN <<Audio(r.rate, r.samples)>> ELSE output_wav

\* the inputs of the merge specification
FragIndices == {1, 2, 10, 12}
MergeNames ==
    {FragName(<<"b">>, i) : i \in FragIndices}
        \cup {FragName(<<"c">>, 2), <<"x", US, "y">> \o DotWav, OutputWavName,
              <<"b", US, "3">> \o DotTxt}

\* a file holds one or two samples, and they are its own
SamplesOf(name) == IF Len(name) % 2 = 1 THEN <<name>> ELSE <<name, name>>

ContentKinds == Rates \cup {0}
ContentOf(name, kind) == IF kind = 0 THEN Junk ELSE Audio(kind, SamplesOf(name))

MergeDirs ==
    UNION {{[n \in S |-> ContentOf(n, k[n])] : k \in [S -> ContentKinds]} :
               S \in {T \in SUBSET MergeNames : Cardinality(T) <= MaxFiles}}

MergeInit ==
    /\ ChunkIdle
    /\ PipeIdle
    /\ SrtIdle
    /\ \E d \in MergeDirs : dirs = [audio |-> d]
    /\ output_wav \in {<<>>, <<Audio(16000, <<OutputWavName>>)>>}
    /\ last_merge = NoMerge
    /\ pc = "glue"

\* python glue.py
GlueMain ==
    /\ pc = "glue"
    /\ \E r \in GlueResults :
           /\ output_wav' = WriteOutput(r)
           /\ last_merge' = r
    /\ pc' = "glue_exited"
    /\ UNCHANGED <<chunkVars, srtVars, pipeVars, dirs>>

SpecMerge == MergeInit /\ [][GlueMain]_vars

(***************************************************************************)
(* launch_tts.py: process_text_files and run_glue_script                   *)
(***************************************************************************)
\* the sample rate of the audio the TTS server returns
TtsRate == CHOOSE r \in Rates : \A q \in Rates : r <= q

\* line 35: datetime.now().strftime("%Y%m%d_%H%M%S"), digits '_' digits
Timestamp == <<"7", US>> \o ToStr(clock)

\* lines 41-42: base_name and final_output_name of an input file
BaseName(f) == Stem(f)
FinalOutputName(f) == BaseName(f) \o <<US>> \o Timestamp \o DotWav

\* lines 52-55: text = file.read().strip(), then the chunks of the text
ChunksOf(f) == split_text_into_chunks(Strip(text_files[f]), max_chunk_length)

OutDir == dirs[output_dir]
Exists(name) == name \in DOMAIN OutDir

\* open(path, 'wb').write(content) in output_dir
WriteFile(name, content) ==
    [dirs EXCEPT ![output_dir] = (name :> content) @@ OutDir]

\* lines 94-99: os.remove of every chunk file, a missing file being skipped
RemoveFiles(names) ==
    [dirs EXCEPT ![output_dir] = [n \in (DOMAIN OutDir) \ names |-> OutDir[n]]]

\* lines 105-123: True when the glue.py process exits with status 0
run_glue_script(r) == ExitCode(r) = 0

\* the inputs of the pipeline specification
NameA == <<"a">> \o DotTxt
NameB == <<"b">> \o DotTxt
NameN == <<"n", DOT, "m", "d">>
TextFileSets ==
    {(NameA :> <<"a", DOT, SP, "a">>) @@ (NameB :> <<"b">>),
     (NameA :> <<SP>>) @@ (NameN :> <<"b">>)}

DefaultMaxChunkLength == 600
ChunkLengths == {3, DefaultMaxChunkLength}

StaleFragment == FragName(<<"a">>, 1)
ForeignFragment == FragName(<<"c">>, 2)
OddWav == <<"x", US, "y">> \o DotWav
OldFinal == <<"a", US, "7", US, "1">> \o DotWav
NoDir == <<>>
Holding(name) == name :> Audio(TtsRate, SamplesOf(name))

\* the directories before the first run: output_dir is <script dir>/audio
\* or another directory, and either may hold files of earlier work
FsConfigs ==
    {[out |-> "audio", dirs |-> [audio |-> NoDir]],
     [out |-> "audio", dirs |-> [audio |-> Holding(OddWav)]],
     [out |-> "audio", dirs |-> [audio |-> Holding(StaleFragment)]],
     [out |-> "audio", dirs |-> [audio |-> Holding(OldFinal)]],
     [out |-> "out", dirs |-> [out |-> NoDir]],
     [out |-> "out", dirs |-> [out |-> NoDir, audio |-> NoDir]],
     [out |-> "out", dirs |-> [out |-> NoDir, audio |-> Holding(ForeignFragment)]]}

Init ==
    /\ ChunkIdle
    /\ SrtIdle
    /\ \E c \in FsConfigs : output_dir = c.out /\ dirs = c.dirs
    /\ output_wav = <<>>
    /\ last_merge = NoMerge
    /\ text_files \in TextFileSets
    /\ overwrite \in BOOLEAN
    /\ max_chunk_length \in ChunkLengths
    /\ run = 0
    /\ clock = 1
    /\ pending = <<>>
    /\ filename = <<>>
    /\ text_chunks = <<>>
    /\ chunk_index = 0
    /\ chunk_files = <<>>
    /\ merge_successful = FALSE
    /\ hist = NoHistory
    /\ pc = "idle"

\* lines 28-38: a run starts; the directory is created, the timestamp taken
\* and the input directory listed
StartRun ==
    /\ pc \in {"idle", "done", "aborted"}
    /\ run < MaxRuns
    /\ run' = run + 1
    /\ clock' \in (IF run = 0 THEN {clock} ELSE {clock, clock + 1})
    /\ dirs' = IF output_dir \in DOMAIN dirs THEN dirs
               ELSE (output_dir :> NoDir) @@ dirs
    /\ pending' \in Perms(DOMAIN text_files)
    /\ hist' = [NoHistory EXCEPT !.run1 = hist.run1]
    /\ pc' = "next_file"
    /\ UNCHANGED <<chunkVars, srtVars, argVars, output_wav, last_merge, filename,
                   text_chunks, chunk_index, chunk_files, merge_successful>>

\* line 39: a file that is no .txt file is passed over
SkipFile ==
    /\ pc = "next_file"
    /\ pending # <<>>
    /\ ~EndsWith(Head(pending), DotTxt)
    /\ pending' = Tail(pending)
    /\ UNCHANGED <<chunkVars, srtVars, fsVars, argVars, run, clock, filename, text_chunks,
                   chunk_index, chunk_files, merge_successful, hist, pc>>

\* lines 46-48: the final file exists and overwrite is off
SkipUnit ==
    /\ pc = "next_file"
    /\ pending # <<>>
    /\ EndsWith(Head(pending), DotTxt)
    /\ Exists(FinalOutputName(Head(pending))) /\ ~overwrite
    /\ pending' = Tail(pending)
    /\ hist' = [hist EXCEPT !.reached = @ \cup {Head(pending)}]
    /\ UNCHANGED <<chunkVars, srtVars, fsVars, argVars, run, clock, filename, text_chunks,
                   chunk_index, chunk_files, merge_successful, pc>>

\* lines 50-56: the text is read, stripped and split
StartUnit ==
    /\ pc = "next_file"
    /\ pending # <<>>
    /\ EndsWith(Head(pending), DotTxt)
    /\ ~(Exists(FinalOutputName(Head(pending))) /\ ~overwrite)
    /\ filename' = Head(pending)
    /\ pending' = Tail(pending)
    /\ text_chunks' = ChunksOf(Head(pending))
    /\ chunk_index' = 1
    /\ chunk_files' = <<>>
    /\ last_merge' = NoMerge
    /\ hist' = [hist EXCEPT !.reached = @ \cup {Head(pending)}, !.deleted = {}]
    /\ pc' = "chunks"
    /\ UNCHANGED <<chunkVars, srtVars, dirs, output_wav, argVars, run, clock, merge_successful>>

ChunkFilename == FragName(BaseName(filename), chunk_index)

\* lines 60-62 and the step to the next chunk
NextChunk ==
    /\ chunk_files' = Append(chunk_files, ChunkFilename)
    /\ chunk_index' = chunk_index + 1

\* lines 65-67: the chunk file exists and overwrite is off
SkipChunk ==
    /\ pc = "chunks"
    /\ chunk_index <= Len(text_chunks)
    /\ Exists(ChunkFilename) /\ ~overwrite
    /\ NextChunk
    /\ UNCHANGED <<chunkVars, srtVars, fsVars, argVars, run, clock, pending, filename,
                   text_chunks, merge_successful, hist, pc>>

\* lines 77-81 with a response of the given status: the body is written to
\* the chunk file whatever the status is
Synthesize(status, body) ==
    /\ pc = "chunks"
    /\ chunk_index <= Len(text_chunks)
    /\ ~(Exists(ChunkFilename) /\ ~overwrite)
    /\ dirs' = WriteFile(ChunkFilename, body)
    /\ hist' = [hist EXCEPT !.tts_calls = @ + 1,
                            !.writes = @ \cup {[name |-> ChunkFilename, status |-> status]},
                            !.clean = @ /\ status = 200]
    /\ NextChunk
    /\ UNCHANGED <<chunkVars, srtVars, output_wav, last_merge, argVars, run, clock, pending,
                   filename, text_chunks, merge_successful, pc>>

\* the TTS server answers 2xx with the audio of the chunk
TtsOk == Synthesize(200, Audio(TtsRate, <<text_chunks[chunk_index]>>))

\* the TTS server answers non-2xx with an error body
TtsHttpError == Synthesize(500, Junk)

\* line 77: requests.post raises (connection error); nothing catches it, so
\* the exception leaves process_text_files
TtsConnectionError ==
    /\ pc = "chunks"
    /\ chunk_index <= Len(text_chunks)
    /\ ~(Exists(ChunkFilename) /\ ~overwrite)
    /\ hist' = [hist EXCEPT !.tts_calls = @ + 1, !.clean = FALSE]
    /\ chunk_files' = Append(chunk_files, ChunkFilename)
    /\ pc' = "aborted"
    /\ UNCHANGED <<chunkVars, srtVars, fsVars, argVars, run, clock, pending, filename,
                   text_chunks, chunk_index, merge_successful>>

\* a plausible slip: the glue script is run from inside the loop over the
\* chunks, as soon as one chunk has been handled
RunGlueEarly ==
    /\ pc = "chunks"
    /\ chunk_index > 1
    /\ IF chunk_files # <<>>
       THEN \E r \in GlueResults :
                /\ output_wav' = WriteOutput(r)
                /\ last_merge' = r
                /\ merge_successful' = run_glue_script(r)
                /\ hist' = [hist EXCEPT !.clean = @ /\ r.outcome = "written"]
       ELSE /\ merge_successful' = FALSE
            /\ UNCHANGED <<output_wav, last_merge, hist>>
    /\ pc' = "cleanup"
    /\ UNCHANGED <<chunkVars, srtVars, dirs, argVars, run, clock, pending, filename,
                   text_chunks, chunk_index, chunk_files>>

\* lines 87-90: the glue script is run when there are chunk files
RunGlue ==
    /\ pc = "chunks"
    /\ chunk_index > Len(text_chunks)
    /\ IF chunk_files # <<>>
       THEN \E r \in GlueResults :
                /\ output_wav' = WriteOutput(r)
                /\ last_merge' = r
                /\ merge_successful' = run_glue_script(r)
                /\ hist' = [hist EXCEPT !.clean = @ /\ r.outcome = "written"]
       ELSE /\ merge_successful' = FALSE
            /\ UNCHANGED <<output_wav, last_merge, hist>>
    /\ pc' = "cleanup"
    /\ UNCHANGED <<chunkVars, srtVars, dirs, argVars, run, clock, pending, filename,
                   text_chunks, chunk_index, chunk_files>>

ChunkFileSet == {chunk_files[k] : k \in 1 .. Len(chunk_files)}

\* lines 93-99: the merge was successful, the chunk files are deleted
CleanupDelete ==
    /\ pc = "cleanup"
    /\ merge_successful
    /\ dirs' = RemoveFiles(ChunkFileSet)
    /\ hist' = [hist EXCEPT !.deleted = ChunkFileSet \cap DOMAIN OutDir,
                            !.processed = @ \cup {filename}]
    /\ pc' = "next_file"
    /\ UNCHANGED <<chunkVars, srtVars, output_wav, last_merge, argVars, run, clock, loopVars>>

\* lines 100-101: the merge failed, the chunk files are kept
CleanupKeep ==
    /\ pc = "cleanup"
    /\ ~merge_successful
    /\ hist' = [hist EXCEPT !.processed = @ \cup {filename}]
    /\ pc' = "next_file"
    /\ UNCHANGED <<chunkVars, srtVars, fsVars, argVars, run, clock, loopVars>>

\* line 103: the loop over the input files is over
FinishRun ==
    /\ pc = "next_file"
    /\ pending = <<>>
    /\ hist' = IF run = 1
               THEN [hist EXCEPT !.run1 = <<[dirs |-> dirs, output_wav |-> output_wav,
                                             clean |-> hist.clean,
                                             tts_calls |-> hist.tts_calls,
                                             processed |-> hist.processed]>>]
               ELSE hist
    /\ pc' = "done"
    /\ UNCHANGED <<chunkVars, srtVars, fsVars, argVars, run, clock, loopVars>>

Next ==
    \/ StartRun
    \/ SkipFile
    \/ SkipUnit
    \/ StartUnit
    \/ SkipChunk
    \/ TtsOk
    \/ TtsHttpError
    \/ TtsConnectionError
    \/ RunGlue
    \/ CleanupDelete
    \/ CleanupKeep
    \/ FinishRun

Spec == Init /\ [][Next]_vars

(***************************************************************************)
(* launch_from_srt.py: process_srt_files                                   *)
(*                                                                         *)
(* dirs maps the base name of an SRT file to <output_base_dir>/<base_name>.*)
(***************************************************************************)
\* a plausible slip: overwrite is not looked at
SkipExistingAlways(exists, ow) == exists

\* line 113: os.path.exists(audio_filepath) and not overwrite
SkipExisting(exists, ow) == exists /\ ~ow

\* line 90: os.makedirs(srt_output_dir, exist_ok=True)
MakeSrtDir(base_name) ==
    IF base_name \in DOMAIN dirs THEN dirs ELSE (base_name :> NoDir) @@ dirs

SrtOutputDir == dirs[BaseName(filename)]

\* lines 107-109 for the segment the loop is at
SrtAudioFilename == AudioFilename(order, segments[order].start_time)

\* the inputs of the subtitle specification: an SRT file is written down as
\* a list of blocks and rendered to the text of the file
T1 == <<"0", "0", COLON, "0", "0", COLON, "0", "3", COMMA, "7", "0", "0">>
T2 == <<"0", "0", COLON, "0", "0", COLON, "0", "5", COMMA, "0", "0", "0">>
T3 == <<"0", "0", COLON, "0", "1", COLON, "1", "0", COMMA, "2", "5", "0">>

Block(kind, index, start_time, end_time, body) ==
    [kind |-> kind, index |-> index, start_time |-> start_time,
     end_time |-> end_time, text |-> body]

TimeLine(start_time, end_time) == start_time \o <<SP>> \o Arrow \o <<SP>> \o end_time

\* the text of one block: "good" is a well-formed block; the other kinds
\* are malformed in the way of one test of lines 28-53
RenderBlock(b) ==
    CASE b.kind = "good" ->
             ToStr(b.index) \o <<NL>> \o TimeLine(b.start_time, b.end_time)
                 \o <<NL>> \o b.text
      [] b.kind = "one_line" -> ToStr(b.index)
      [] b.kind = "bad_index" ->
             <<"x">> \o <<NL>> \o TimeLine(b.start_time, b.end_time) \o <<NL>> \o b.text
      [] b.kind = "bad_time" ->
             ToStr(b.index) \o <<NL>> \o <<"0", COLON, "0", "3", SP>> \o Arrow
                 \o <<NL>> \o b.text
      [] b.kind = "no_text" ->
             ToStr(b.index) \o <<NL>> \o TimeLine(b.start_time, b.end_time)

RECURSIVE RenderBlocks(_)
RenderBlocks(blocks) ==
    IF blocks = <<>> THEN <<>>
    ELSE IF Len(blocks) = 1 THEN RenderBlock(blocks[1])
    ELSE RenderBlock(blocks[1]) \o <<NL, NL>> \o RenderBlocks(Tail(blocks))

SrtFile(blocks) == [readable |-> TRUE, content |-> RenderBlocks(blocks) \o <<NL>>]
\* a file that open() or the utf-8 decoding of read() fails on
Unreadable == [readable |-> FALSE, content |-> <<>>]

BlocksS ==
    <<Block("good", 5, T1, T2, <<"h", "i">>),
      Block("bad_index", 0, T2, T3, <<"n", "o">>),
      Block("good", 6, T2, T3, <<"y", "o">>)>>
BlocksU == <<Block("good", 1, T1, T2, <<"o", "k">>)>>
BlocksV ==
    <<Block("bad_time", 1, T1, T2, <<"n", "o">>),
      Block("no_text", 2, T1, T2, <<>>),
      Block("good", 3, T3, T3, <<"a", SP, SP, "b">>),
      Block("one_line", 4, T1, T2, <<>>)>>
BlockLists == {BlocksS, BlocksU, BlocksV}

NameS == <<"s">> \o DotSrt
NameT == <<"t">> \o DotSrt
NameU == <<"u">> \o DotSrt
SrtFileSets ==
    {(NameS :> SrtFile(BlocksS)) @@ (NameT :> Unreadable) @@ (NameU :> SrtFile(BlocksU)),
     (NameS :> SrtFile(BlocksV)) @@ (NameB :> SrtFile(BlocksU))}

\* the output directories before the first run: none, or the directory of
\* s.srt holding the first file of an earlier run
OldSegmentAudio == Audio(TtsRate, <<<<"o", "l", "d">>>>)
SrtDirConfigs ==
    {<<>>, (<<"s">> :> (AudioFilename(1, T1) :> OldSegmentAudio))}

NoSrtHistory == [tts_calls |-> 0, files |-> <<>>, events |-> <<>>]

SrtEvent(result) ==
    [file |-> filename, order |-> order, name |-> SrtAudioFilename, result |-> result]

SrtInit ==
    /\ ChunkIdle
    /\ dirs \in SrtDirConfigs
    /\ output_wav = <<>>
    /\ last_merge = NoMerge
    /\ text_files = <<>>
    /\ output_dir = "audio"
    /\ overwrite \in BOOLEAN
    /\ max_chunk_length = 0
    /\ run = 0
    /\ clock = 0
    /\ pending = <<>>
    /\ filename = <<>>
    /\ text_chunks = <<>>
    /\ chunk_index = 0
    /\ chunk_files = <<>>
    /\ merge_successful = FALSE
    /\ hist = NoSrtHistory
    /\ srt_files \in SrtFileSets
    /\ segments = <<>>
    /\ order = 0
    /\ name_in = <<>>
    /\ audio_filenames = <<>>
    /\ pc = "srt_idle"

\* lines 76-83: a run starts and the input directory is listed
SrtStartRun ==
    /\ pc \in {"srt_idle", "srt_done"}
    /\ run < MaxRuns
    /\ run' = run + 1
    /\ pending' \in Perms(DOMAIN srt_files)
    /\ hist' = NoSrtHistory
    /\ pc' = "srt_next_file"
    /\ UNCHANGED <<textOnlyVars, dirs, overwrite, filename, srtVars>>

\* line 84: a file that is no .srt file is passed over
SrtSkipFile ==
    /\ pc = "srt_next_file"
    /\ pending # <<>>
    /\ ~EndsWith(Head(pending), DotSrt)
    /\ pending' = Tail(pending)
    /\ UNCHANGED <<textOnlyVars, dirs, overwrite, run, filename, hist, srtVars, pc>>

\* lines 85-101: the directory of the file is made, parse_srt_file raises,
\* the exception is caught and the loop goes on with the next file
SrtParseError ==
    /\ pc = "srt_next_file"
    /\ pending # <<>>
    /\ EndsWith(Head(pending), DotSrt)
    /\ ~srt_files[Head(pending)].readable
    /\ dirs' = MakeSrtDir(BaseName(Head(pending)))
    /\ pending' = Tail(pending)
    /\ hist' = [hist EXCEPT !.files = Append(@, [file |-> Head(pending), parsed |-> FALSE])]
    /\ UNCHANGED <<textOnlyVars, overwrite, run, filename, srtVars, pc>>

\* lines 85-98: the directory of the file is made and the file is parsed
SrtStartFile ==
    /\ pc = "srt_next_file"
    /\ pending # <<>>
    /\ EndsWith(Head(pending), DotSrt)
    /\ srt_files[Head(pending)].readable
    /\ dirs' = MakeSrtDir(BaseName(Head(pending)))
    /\ filename' = Head(pending)
    /\ pending' = Tail(pending)
    /\ segments' = parse_srt_file(srt_files[Head(pending)].content)
    /\ order' = 1
    /\ hist' = [hist EXCEPT !.files = Append(@, [file |-> Head(pending), parsed |-> TRUE])]
    /\ pc' = "srt_segments"
    /\ UNCHANGED <<textOnlyVars, overwrite, run, srt_files, name_in, audio_filenames>>

\* lines 113-115: the file of the segment exists and overwrite is off
SrtSkipSegment ==
    /\ pc = "srt_segments"
    /\ order <= Len(segments)
    /\ SkipExisting(SrtAudioFilename \in DOMAIN SrtOutputDir, overwrite)
    /\ order' = order + 1
    /\ hist' = [hist EXCEPT !.events = Append(@, SrtEvent("skipped"))]
    /\ UNCHANGED <<textOnlyVars, dirs, overwrite, run, pending, filename,
                   srt_files, segments, name_in, audio_filenames, pc>>

\* lines 125-138: the TTS server answers 2xx, the audio is written
SrtTtsOk ==
    /\ pc = "srt_segments"
    /\ order <= Len(segments)
    /\ ~SkipExisting(SrtAudioFilename \in DOMAIN SrtOutputDir, overwrite)
    /\ dirs' = [dirs EXCEPT ![BaseName(filename)] =
                    (SrtAudioFilename :> Audio(TtsRate, <<segments[order].text>>))
                        @@ SrtOutputDir]
    /\ order' = order + 1
    /\ hist' = [hist EXCEPT !.tts_calls = @ + 1,
                            !.events = Append(@, SrtEvent("written"))]
    /\ UNCHANGED <<textOnlyVars, overwrite, run, pending, filename,
                   srt_files, segments, name_in, audio_filenames, pc>>

\* lines 125-131 and 140-142: requests.post or raise_for_status raises a
\* RequestException, which is caught; the loop goes on with the next segment
SrtRequestFailure(result) ==
    /\ pc = "srt_segments"
    /\ order <= Len(segments)
    /\ ~SkipExisting(SrtAudioFilename \in DOMAIN SrtOutputDir, overwrite)
    /\ order' = order + 1
    /\ hist' = [hist EXCEPT !.tts_calls = @ + 1,
                            !.events = Append(@, SrtEvent(result))]
    /\ UNCHANGED <<textOnlyVars, dirs, overwrite, run, pending, filename,
                   srt_files, segments, name_in, audio_filenames, pc>>

\* the TTS server answers non-2xx: raise_for_status raises HTTPError
SrtHttpError == SrtRequestFailure("http_error")

\* the TTS server cannot be reached: requests.post raises ConnectionError
SrtConnectionError == SrtRequestFailure("connection_error")

\* line 104: the loop over the segments is over
SrtEndFile ==
    /\ pc = "srt_segments"
    /\ order > Len(segments)
    /\ pc' = "srt_next_file"
    /\ UNCHANGED <<textOnlyVars, dirs, overwrite, run, pending, filename, hist, srtVars>>

\* line 144: the loop over the input files is over
SrtFinishRun ==
    /\ pc = "srt_next_file"
    /\ pending = <<>>
    /\ pc' = "srt_done"
    /\ UNCHANGED <<textOnlyVars, dirs, overwrite, run, pending, filename, hist, srtVars>>

\* the file names of two segments of one file are formed (lines 107-109)
StartTimes == {T1, T2}

NameInit ==
    /\ ChunkIdle
    /\ FsIdle
    /\ PipeIdle
    /\ srt_files = <<>>
    /\ segments = <<>>
    /\ order = 0
    /\ \E j, k \in 1 .. MaxOrder, t, u \in StartTimes :
           /\ j < k
           /\ name_in = <<[order |-> j, start_time |-> t], [order |-> k, start_time |-> u]>>
    /\ audio_filenames = <<>>
    /\ pc = "name"

FormatNames ==
    /\ pc = "name"
    /\ audio_filenames' =
           [k \in 1 .. Len(name_in) |-> AudioFilename(name_in[k].order, name_in[k].start_time)]
    /\ pc' = "named"
    /\ UNCHANGED <<textOnlyVars, dirs, overwrite, run, pending, filename, hist,
                   srt_files, segments, order, name_in>>

SrtSpecInit == SrtInit \/ NameInit

SrtNext ==
    \/ SrtStartRun
    \/ SrtSkipFile
    \/ SrtParseError
    \/ SrtStartFile
    \/ SrtSkipSegment
    \/ SrtTtsOk
    \/ SrtHttpError
    \/ SrtConnectionError
    \/ SrtEndFile
    \/ SrtFinishRun
    \/ FormatNames

SpecSrt == SrtSpecInit /\ [][SrtNext]_vars

\* either pipeline script is run
PipelinesInit == Init \/ SrtSpecInit

PipelinesNext == Next \/ SrtNext

SpecPipelines == PipelinesInit /\ [][PipelinesNext]_vars

(***************************************************************************)
(* Properties of split_text_into_chunks, checked under SpecChunk.          *)
(***************************************************************************)
\* the atomic units of the input: the pieces of text.split('. ')
Units == SplitSentences(text)

\* chunk c consists of exactly the one atomic unit u
IsSingleUnit(c, u) == c = Strip(u \o Terminator)

\* C3 as stated (for a non-empty text and max_length >= 1): every chunk has
\* length <= max_length, except a chunk that consists of exactly one atomic
\* unit whose own length exceeds max_length.
C3_AsStated ==
    (chunk_pc = "done" /\ max_length >= 1 /\ text # <<>>) =>
        \A j \in 1 .. Len(chunks) :
            \/ Len(chunks[j]) <= max_length
            \/ \E i \in 1 .. Len(Units) :
                   IsSingleUnit(chunks[j], Units[i]) /\ Len(Units[i]) > max_length

\* C3 amended: every chunk has length <= max_length, except a chunk that
\* consists of exactly one atomic unit whose length plus one (the '.' the
\* chunker appends to it) exceeds max_length.
C3_ChunkLengthBound ==
    chunk_pc = "done" =>
        \A j \in 1 .. Len(chunks) :
            \/ Len(chunks[j]) <= max_length
            \/ \E i \in 1 .. Len(Units) :
                   IsSingleUnit(chunks[j], Units[i]) /\ Len(Units[i]) + 1 > max_length

\* a call that returns an oversized single-unit chunk next to a chunk that
\* fills max_length exactly
C3_Witness ==
    /\ chunk_pc = "done"
    /\ max_length >= 2
    /\ \E j \in 1 .. Len(chunks) : Len(chunks[j]) > max_length
    /\ \E j \in 1 .. Len(chunks) :
           /\ Len(chunks[j]) = max_length
           /\ Contains(chunks[j], "a")

ScenarioClaimed == << <<"A", DOT>>, <<"B", DOT>>, <<"C", DOT>> >>
ScenarioActual == << <<"A", DOT, SP, "B", DOT>>, <<"C", DOT, DOT>> >>

IsScenario == chunk_pc = "done" /\ text = ScenarioText /\ max_length = 5

\* C7 as stated: "A. B. C." with max_length 5 gives ["A.", "B.", "C."].
C7_AsStated == IsScenario => chunks = ScenarioClaimed

\* C7 amended: "A. B. C." with max_length 5 gives the two chunks
\* ["A. B.", "C.."]: "A. " plus "B" plus one is 5, which fits, and the last
\* piece "C." gets the terminator appended like every other piece.
C7_Scenario == IsScenario => chunks = ScenarioActual

C7_Witness == IsScenario /\ Len(chunks) = 2

\* C8 (for max_length >= 1 and a text as process_text_files passes it,
\* stripped): at least one chunk for every non-empty text, and no chunk for
\* the empty text.
C8_AsStated ==
    (chunk_pc = "done" /\ max_length >= 1 /\ text = Strip(text)) =>
        /\ text # <<>> => Len(chunks) >= 1
        /\ text = <<>> => chunks = <<>>

\* whitespace normalization: all blanks removed
Norm(s) == SelectSeq(s, LAMBDA c : c # SP)

\* the units us, each followed by its '.', normalized and concatenated
RECURSIVE UnitsJoined(_)
UnitsJoined(us) ==
    IF us = <<>> THEN <<>> ELSE Norm(Head(us)) \o <<DOT>> \o UnitsJoined(Tail(us))

\* the chunks cs are, in order, consecutive groups of the units us
RECURSIVE ChunksCoverUnits(_, _)
ChunksCoverUnits(cs, us) ==
    IF cs = <<>> THEN us = <<>>
    ELSE \E g \in 0 .. Len(us) :
             /\ Norm(Head(cs)) = UnitsJoined(SubSeq(us, 1, g))
             /\ ChunksCoverUnits(Tail(cs), SubSeq(us, g + 1, Len(us)))

\* C9: read in order, the chunks hold the atomic units of the text in their
\* original order, each unit whole in exactly one chunk (modulo blanks): no
\* unit is split across chunks, dropped, duplicated or reordered.
C9_Reconstruction == chunk_pc = "done" => ChunksCoverUnits(chunks, Units)

\* a text of three units spread over two chunks
C9_Witness ==
    /\ chunk_pc = "done"
    /\ Len(Units) >= 3
    /\ Len(chunks) = 2
    /\ \A j \in 1 .. Len(chunks) : chunks[j] # <<>>
    /\ \A i \in 1 .. Len(Units) : Contains(Units[i], "a")

\* C17 as stated: for a stripped text that starts with a letter and
\* max_length >= 1, every chunk returned is non-empty.
C17_AsStated ==
    (/\ chunk_pc = "done"
     /\ max_length >= 1
     /\ text # <<>> /\ text = Strip(text) /\ Head(text) = "a") =>
        \A j \in 1 .. Len(chunks) : chunks[j] # <<>>

(***************************************************************************)
(* Properties of the text pipeline, checked under Spec.                    *)
(***************************************************************************)
TxtFiles == {f \in DOMAIN text_files : EndsWith(f, DotTxt)}

\* C1: when the merge of a TextUnit ends in SortFailure or NoValidAudio, no
\* fragment file of that TextUnit is deleted.
C1_AsStated ==
    last_merge.outcome \in {"sort_failure", "no_audio"} => hist.deleted = {}

\* the first run ended, it synthesized and merged every TextUnit of the
\* input directory, and each of its TTS calls and merges succeeded
FirstRunSucceeded ==
    /\ hist.run1 # <<>>
    /\ hist.run1[1].clean
    /\ hist.run1[1].tts_calls > 0
    /\ hist.run1[1].processed = TxtFiles

\* C2: a second run with overwrite off, after a first run whose TTS calls
\* and merges all succeeded, makes no TTS call and leaves the files as the
\* first run left them.
C2_AsStated ==
    (run = 2 /\ pc = "done" /\ ~overwrite /\ FirstRunSucceeded) =>
        /\ hist.tts_calls = 0
        /\ dirs = hist.run1[1].dirs
        /\ output_wav = hist.run1[1].output_wav

\* the audio of the fragments of input file f, in ascending index order
FragmentsAudio(f) == ChunksOf(f)

\* C4: after a run that processed several TextUnits, every step succeeding,
\* each processed TextUnit has its merged artifact
\* <base_name>[_<timestamp>].wav in output_dir, the concatenation of exactly
\* its own fragments in ascending index order.
C4_AsStated ==
    (pc = "done" /\ hist.clean /\ Cardinality(hist.processed) >= 2) =>
        \A f \in hist.processed :
            \E name \in {FinalOutputName(f), BaseName(f) \o DotWav} :
                /\ Exists(name)
                /\ OutDir[name].valid
                /\ OutDir[name].samples = FragmentsAudio(f)

\* C5: a failed TTS call does not abort the run: when the run ends, every
\* TextUnit of the input directory has been reached.
C5_AsStated ==
    pc \in {"done", "aborted"} => \A f \in TxtFiles : f \in hist.reached

\* C6: a fragment file is written only from a 2xx response.
C6_AsStated == \A w \in hist.writes : w.status = 200

\* the files of output_dir that a step removes
Removed ==
    IF output_dir \in DOMAIN dirs
    THEN DOMAIN dirs[output_dir] \ DOMAIN dirs'[output_dir]
    ELSE {}

\* name is a fragment name of the input file f
IsFragmentOf(name, f) ==
    \E i \in 1 .. Len(ChunksOf(f)) : name = FragName(BaseName(f), i)

\* C16: the steps of a run are strictly ordered.  The merge of a TextUnit
\* starts only when every chunk of the unit has been skipped or synthesized
\* (its fragment file is there); files are removed only in the cleanup of the
\* unit, after its merge has returned, and they are its fragments; a TTS call
\* is made only for the unit in work, whose cleanup has not run, and every
\* earlier TTS call of the run was for this unit or for a unit whose
\* merge-and-cleanup step has finished.
C16_StepOrder ==
    [][/\ (pc = "chunks" /\ pc' = "cleanup") =>
              /\ Len(chunk_files) = Len(text_chunks)
              /\ \A k \in 1 .. Len(text_chunks) :
                     /\ chunk_files[k] = FragName(BaseName(filename), k)
                     /\ Exists(chunk_files[k])
       /\ Removed # {} =>
              /\ pc = "cleanup"
              /\ last_merge.outcome # ""
              /\ Removed \subseteq ChunkFileSet
       /\ hist'.tts_calls > hist.tts_calls =>
              /\ pc = "chunks"
              /\ filename \notin hist.processed
              /\ \A w \in hist.writes :
                     \E f \in hist.processed \cup {filename} : IsFragmentOf(w.name, f)
      ]_vars

\* a run over two TextUnits, three TTS calls, fragments deleted
C16_Witness ==
    /\ pc = "done"
    /\ Cardinality(hist.processed) = 2
    /\ hist.tts_calls >= 3
    /\ hist.deleted # {}

(***************************************************************************)
(* Properties of glue.py, checked under SpecMerge.                         *)
(***************************************************************************)
\* the numeric index after the last '_' of a file name
IndexOf(name) == ToInt(BeforeFirst(AfterLast(name, US), DOT))

\* the fragments of the directory: the .wav files with a '_' in the name
Fragments == {n \in DOMAIN dirs["audio"] : EndsWith(n, DotWav) /\ Contains(n, US)}

\* C10: the fragments are concatenated in ascending order of the numeric
\* index after the last '_' of the name, whatever order the directory is
\* listed in: the merged order is ascending in that index, it holds every
\* fragment when the fragments share one rate, and the output holds the
\* samples in that order.
C10_NumericOrder ==
    (pc = "glue_exited" /\ last_merge.outcome = "written") =>
        /\ \A j, k \in 1 .. Len(last_merge.order) :
               j < k => IndexOf(last_merge.order[j]) <= IndexOf(last_merge.order[k])
        /\ (\A m, n \in Fragments : dirs["audio"][m].rate = dirs["audio"][n].rate)
               => {last_merge.order[k] : k \in 1 .. Len(last_merge.order)} = Fragments
        /\ output_wav[1].samples = Concatenate(last_merge.order, dirs["audio"])

\* b_2.wav and b_10.wav merged, in this order, next to a third fragment
C10_Witness ==
    /\ pc = "glue_exited"
    /\ last_merge.outcome = "written"
    /\ Len(last_merge.order) = 3
    /\ \E j \in 1 .. 2 :
           /\ last_merge.order[j] = FragName(<<"b">>, 2)
           /\ last_merge.order[j + 1] = FragName(<<"b">>, 10)

\* the number of samples of the files of a set
RECURSIVE SampleCount(_)
SampleCount(S) ==
    IF S = {} THEN 0
    ELSE LET n == CHOOSE x \in S : TRUE
         IN Len(dirs["audio"][n].samples) + SampleCount(S \ {n})

\* C11: the rate of the first fragment in sorted order is the reference
\* rate; the merge includes exactly the fragments of that rate, in sorted
\* order; the output is written at the reference rate and its sample count
\* is the sum of the sample counts of the included fragments.
C11_ReferenceRate ==
    (pc = "glue_exited" /\ last_merge.outcome = "written") =>
        LET first == last_merge.order[1]
            reference == dirs["audio"][first].rate
            included == {n \in Fragments : dirs["audio"][n].rate = reference}
        IN  /\ first \in Fragments
            /\ \A n \in Fragments : IndexOf(first) <= IndexOf(n)
            /\ {last_merge.order[k] : k \in 1 .. Len(last_merge.order)} = included
            /\ Len(last_merge.order) = Cardinality(included)
            /\ \A j, k \in 1 .. Len(last_merge.order) :
                   j < k => IndexOf(last_merge.order[j]) <= IndexOf(last_merge.order[k])
            /\ output_wav[1].valid
            /\ output_wav[1].rate = reference
            /\ Len(output_wav[1].samples) = SampleCount(included)

\* three fragments with the rates 16000, 16000, 44100 in sorted order: the
\* output holds the first two at 16000 Hz
C11_Witness ==
    /\ pc = "glue_exited"
    /\ last_merge.outcome = "written"
    /\ Cardinality(Fragments) = 3
    /\ Len(last_merge.order) = 2
    /\ output_wav[1].rate = 16000
    /\ \E n \in Fragments :
           /\ dirs["audio"][n].rate = 44100
           /\ \A m \in Fragments \ {n} :
                  IndexOf(m) < IndexOf(n) /\ dirs["audio"][m].rate = 16000

\* C12: a merge that fails writes no output.  A fragment name whose suffix
\* is no number makes the run end with the sort failure, whatever the files
\* hold (none is loaded); a directory without fragments makes it end with
\* "no audio"; in both cases the output file is what it was before the run.
C12_NoOutputOnFailure ==
    [][(pc = "glue" /\ pc' = "glue_exited") =>
          /\ (\E n \in Fragments : ~IsInt(KeyText(n))) =>
                 last_merge'.outcome = "sort_failure"
          /\ Fragments = {} => last_merge'.outcome = "no_audio"
          /\ last_merge'.outcome \in {"sort_failure", "no_audio"} =>
                 output_wav' = output_wav]_vars

\* a sort failure next to a fragment that could not have been loaded, with
\* the output file of an earlier merge still in place
C12_Witness ==
    /\ pc = "glue_exited"
    /\ last_merge.outcome = "sort_failure"
    /\ output_wav = <<Audio(16000, <<OutputWavName>>)>>
    /\ \E n \in Fragments : ~dirs["audio"][n].valid

(***************************************************************************)
(* Properties of process_srt_files, checked under SpecSrt.                 *)
(***************************************************************************)
SrtNames == {f \in DOMAIN srt_files : EndsWith(f, DotSrt)}

\* the well-formed blocks of the SRT file f, in the order of the file
WellFormed(f) ==
    LET blocks == CHOOSE B \in BlockLists : SrtFile(B) = srt_files[f]
    IN SelectSeq(blocks, LAMBDA b : b.kind = "good")

\* the segments parsed from the current file are its well-formed blocks
SegmentsAreWellFormedBlocks ==
    /\ Len(segments) = Len(WellFormed(filename))
    /\ \A k \in 1 .. Len(segments) :
           /\ segments[k].index = WellFormed(filename)[k].index
           /\ segments[k].start_time = WellFormed(filename)[k].start_time
           /\ segments[k].end_time = WellFormed(filename)[k].end_time

\* the events of the run that are about file f
EventsOf(f) == SelectSeq(hist.events, LAMBDA e : e.file = f)

\* every .srt file was reached once, and every segment of every readable
\* file was skipped or sent to the TTS endpoint, in order
RunIsComplete ==
    /\ {hist.files[k].file : k \in 1 .. Len(hist.files)} = SrtNames
    /\ Len(hist.files) = Cardinality(SrtNames)
    /\ \A k \in 1 .. Len(hist.files) :
           hist.files[k].parsed = srt_files[hist.files[k].file].readable
    /\ \A f \in SrtNames :
           IF srt_files[f].readable
           THEN /\ Len(EventsOf(f)) = Len(WellFormed(f))
                /\ \A k \in 1 .. Len(EventsOf(f)) : EventsOf(f)[k].order = k
           ELSE EventsOf(f) = <<>>

RequestFailed ==
    /\ pc = "srt_segments"
    /\ Len(hist'.events) = Len(hist.events) + 1
    /\ hist'.events[Len(hist'.events)].result \in {"http_error", "connection_error"}

\* C14: in the subtitle pipeline a failure is confined to its scope.  The
\* segments parsed from a file are its well-formed blocks, the malformed
\* ones being passed over; a failed TTS request leaves the directories as
\* they were and the loop goes to the next segment; when the run ends every
\* .srt file has been reached, also after one that could not be parsed, and
\* every segment of every parsed file has been skipped or sent.
C14_FailureConfined ==
    [][/\ pc' = "srt_segments" => SegmentsAreWellFormedBlocks'
       /\ RequestFailed => (dirs' = dirs /\ pc' = "srt_segments" /\ order' = order + 1)
       /\ pc' = "srt_done" => RunIsComplete'
      ]_vars

\* a finished run in which a file was written after a file that could not
\* be parsed, and in which the second segment of s.srt, the one after the
\* malformed block, was written after the request for the first had failed
C14_Witness ==
    /\ pc = "srt_done"
    /\ srt_files[NameS] = SrtFile(BlocksS)
    /\ \E i \in 1 .. Len(hist.events) - 1 :
           /\ hist.events[i].file = NameS
           /\ hist.events[i].result = "http_error"
           /\ hist.events[i + 1].file = NameS
           /\ hist.events[i + 1].result = "written"
    /\ \E j, k \in 1 .. Len(hist.files) :
           /\ j < k
           /\ ~hist.files[j].parsed
           /\ hist.files[k].parsed
           /\ \E i \in 1 .. Len(hist.events) :
                  /\ hist.events[i].file = hist.files[k].file
                  /\ hist.events[i].result = "written"

\* the order of the characters of a file name in Python's string comparison
CodePoints == <<DASH, DOT>> \o Digits \o <<US, "a", "v", "w">>
CodePoint(c) == CHOOSE k \in 1 .. Len(CodePoints) : CodePoints[k] = c

\* a < b for two Python strings
RECURSIVE LexLess(_, _)
LexLess(a, b) ==
    IF b = <<>> THEN FALSE
    ELSE IF a = <<>> THEN TRUE
    ELSE IF Head(a) = Head(b) THEN LexLess(Tail(a), Tail(b))
    ELSE CodePoint(Head(a)) < CodePoint(Head(b))

\* '<k as 2 digits>_<start_time with ':' and ',' replaced by '-'>.wav'
TwoDigitName(k, start_time) ==
    <<Digits[(k \div 10) + 1], Digits[(k % 10) + 1], US>>
        \o [i \in 1 .. 12 |-> IF i \in {3, 6, 9} THEN DASH ELSE start_time[i]]
        \o DotWav

ScenarioName ==
    <<"0", "1", US, "0", "0", DASH, "0", "0", DASH, "0", "3", DASH, "7", "0", "0",
      DOT, "w", "a", "v">>

\* C15: the k-th retained segment of an SRT file, counted in parse order and
\* not by the index field of the block, gets the name of k in two digits,
\* '_', the start time with dashes and '.wav'; the first segment with start
\* time 00:00:03,700 gets 01_00-00-03-700.wav; for orders up to 99 the names
\* of two segments differ and compare as their orders do.
C15_SegmentNames ==
    /\ pc \in {"srt_segments", "srt_next_file", "srt_done"} =>
           \A i \in 1 .. Len(hist.events) :
               LET e == hist.events[i]
                   start_time == WellFormed(e.file)[e.order].start_time
               IN /\ e.name = TwoDigitName(e.order, start_time)
                  /\ (e.order = 1 /\ start_time = T1) => e.name = ScenarioName
    /\ pc = "named" =>
           /\ \A k \in 1 .. 2 :
                  name_in[k].order <= 99 =>
                      audio_filenames[k] =
                          TwoDigitName(name_in[k].order, name_in[k].start_time)
           /\ name_in[2].order <= 99 =>
                  /\ audio_filenames[1] # audio_filenames[2]
                  /\ LexLess(audio_filenames[1], audio_filenames[2])

\* the names of the orders 1 and 99 have been formed, the first being the
\* one of the scenario
C15_Witness ==
    /\ pc = "named"
    /\ audio_filenames[1] = ScenarioName
    /\ name_in[2].order = 99

(***************************************************************************)
(* Properties of both pipelines, checked under SpecPipelines.              *)
(***************************************************************************)
\* what the claim says of a step that handles a chunk or a segment whose
\* destination file is or is not there
OverwriteRule(exists) ==
    /\ (exists /\ ~overwrite) => (hist'.tts_calls = hist.tts_calls /\ dirs' = dirs)
    /\ overwrite => hist'.tts_calls = hist.tts_calls + 1

\* C13: in the text pipeline and in the subtitle pipeline, the step for a
\* chunk or segment whose destination file exists while overwrite is false
\* makes no TTS call and leaves every file as it is; when overwrite is true
\* the step makes a TTS call whether the file exists or not.
C13_OverwriteRule ==
    [][/\ (pc = "chunks" /\ chunk_index <= Len(text_chunks)) =>
              OverwriteRule(Exists(ChunkFilename))
       /\ (pc = "srt_segments" /\ order <= Len(segments)) =>
              OverwriteRule(SrtAudioFilename \in DOMAIN SrtOutputDir)
      ]_vars

\* the first segment of s.srt was skipped, its file of an earlier run is
\* still what it was, and a TTS call was made for another segment
C13_Witness ==
    /\ pc = "srt_done"
    /\ ~overwrite
    /\ run = 1
    /\ \E i \in 1 .. Len(hist.events) :
           /\ hist.events[i].file = NameS
           /\ hist.events[i].order = 1
           /\ hist.events[i].result = "skipped"
    /\ dirs[<<"s">>][AudioFilename(1, T1)] = OldSegmentAudio
    /\ hist.tts_calls >= 1

====
